---------------------------- MODULE Spec2Model ----------------------------
(***************************************************************************)
(* A model of pgtoolkit.conf: the postgresql.conf Document (Configuration),*)
(* its line parser, the value codec, the include resolver and the edit     *)
(* transaction.                                                            *)
(*                                                                         *)
(* Text is modelled character by character: a Python str is a sequence of  *)
(* one-character strings, a line is such a sequence ending in "\n", and     *)
(* the parser, the regular expression and the serializer work on the       *)
(* characters exactly as the code does.  Two lines are byte-identical iff  *)
(* their sequences are equal.                                              *)
(***************************************************************************)
EXTENDS Integers, Sequences, FiniteSets, TLC

(***************************************************************************)
(* Characters and Python str helpers                                       *)
(***************************************************************************)

\* str.strip() / regex \s whitespace, restricted to the characters in use.
Whitespace == {" ", "\t", "\n"}

\* the character class [a-z_.] of _parameter_re
NameChars ==
    {"a","b","c","d","e","f","g","h","i","j","k","l","m","n","o","p","q",
     "r","s","t","u","v","w","x","y","z","_","."}

DigitChars == {"0","1","2","3","4","5","6","7","8","9"}

OctalChars == {"0","1","2","3","4","5","6","7"}

DigitVal(c) ==
    CASE c = "0" -> 0 [] c = "1" -> 1 [] c = "2" -> 2 [] c = "3" -> 3
      [] c = "4" -> 4 [] c = "5" -> 5 [] c = "6" -> 6 [] c = "7" -> 7
      [] c = "8" -> 8 [] c = "9" -> 9

DigitChar(d) ==
    CASE d = 0 -> "0" [] d = 1 -> "1" [] d = 2 -> "2" [] d = 3 -> "3"
      [] d = 4 -> "4" [] d = 5 -> "5" [] d = 6 -> "6" [] d = 7 -> "7"
      [] d = 8 -> "8" [] d = 9 -> "9"

\* s[i:] with a 1-based i
Drop(s, i) == SubSeq(s, i, Len(s))

\* s[:n]
Take(s, n) == SubSeq(s, 1, n)

StartsWith(s, p) == Len(s) >= Len(p) /\ Take(s, Len(p)) = p

EndsWith(s, p) == Len(s) >= Len(p) /\ Drop(s, Len(s) - Len(p) + 1) = p

\* sub in s
Contains(s, sub) ==
    \E i \in 1..(Len(s) - Len(sub) + 1) : SubSeq(s, i, i + Len(sub) - 1) = sub

AllIn(s, S) == \A i \in 1..Len(s) : s[i] \in S

\* number of leading characters of s that are in S
RECURSIVE SpanLen(_, _)
SpanLen(s, S) ==
    IF s # <<>> /\ Head(s) \in S THEN 1 + SpanLen(Tail(s), S) ELSE 0

\* number of trailing characters of s that are in S
RECURSIVE RSpanLen(_, _)
RSpanLen(s, S) ==
    IF s # <<>> /\ s[Len(s)] \in S THEN 1 + RSpanLen(Take(s, Len(s) - 1), S) ELSE 0

\* str.lstrip(chars)
LStrip(s, S) == Drop(s, SpanLen(s, S) + 1)

\* str.rstrip(chars)
RStrip(s, S) == Take(s, Len(s) - RSpanLen(s, S))

\* str.strip()
Strip(s) == RStrip(LStrip(s, Whitespace), Whitespace)

\* str.replace(old, new): leftmost, non-overlapping occurrences
RECURSIVE Replace(_, _, _)
Replace(s, old, new) ==
    IF s = <<>> THEN <<>>
    ELSE IF StartsWith(s, old) THEN new \o Replace(Drop(s, Len(old) + 1), old, new)
    ELSE <<Head(s)>> \o Replace(Tail(s), old, new)

\* index (1-based) of the first occurrence of character c in s, 0 if none
RECURSIVE FindChar(_, _)
FindChar(s, c) ==
    IF s = <<>> THEN 0
    ELSE IF Head(s) = c THEN 1
    ELSE LET r == FindChar(Tail(s), c) IN IF r = 0 THEN 0 ELSE r + 1

\* int(s) for a non-empty string of decimal digits
RECURSIVE StrToInt(_)
StrToInt(s) ==
    IF s = <<>> THEN 0
    ELSE 10 * StrToInt(Take(s, Len(s) - 1)) + DigitVal(s[Len(s)])

\* str(n) for an int n >= 0
RECURSIVE IntToStr(_)
IntToStr(n) ==
    IF n < 10 THEN <<DigitChar(n)>>
    ELSE IntToStr(n \div 10) \o <<DigitChar(n % 10)>>


(***************************************************************************)
(* Values.  A Python value is a record: t is its type, i its number (an    *)
(* int, a bool as 0/1, the whole seconds of a timedelta), ms the           *)
(* milliseconds of a timedelta below the second, s its text (a str, or the *)
(* literal a float was parsed from).                                       *)
(***************************************************************************)

StrV(s) == [t |-> "str", i |-> 0, ms |-> 0, s |-> s]

IntV(n) == [t |-> "int", i |-> n, ms |-> 0, s |-> <<>>]

BoolV(b) == [t |-> "bool", i |-> IF b THEN 1 ELSE 0, ms |-> 0, s |-> <<>>]

\* timedelta(seconds=seconds, milliseconds=ms), 0 <= ms < 1000
DurationV(seconds, ms) == [t |-> "timedelta", i |-> seconds, ms |-> ms, s |-> <<>>]

\* a float, held as the literal it was parsed from
FloatV(s) == [t |-> "float", i |-> 0, ms |-> 0, s |-> s]

\* parse_value raising ValueError
ValueErrorV == [t |-> "ValueError", i |-> 0, ms |-> 0, s |-> <<>>]

\* Python's ==  on two values: bool is an int (True == 1), other types
\* compare within the type.
PyEq(v, w) ==
    IF v.t \in {"int", "bool"} /\ w.t \in {"int", "bool"} THEN v.i = w.i
    ELSE v = w

MEMORY_UNITS == {<<"k","B">>, <<"M","B">>, <<"G","B">>, <<"T","B">>}

\* _memory_re: ^\s*(\d+)\s*([kMGT]B)\s*$
MemoryMatch(raw) ==
    LET r == Strip(raw)
        n == SpanLen(r, DigitChars)
    IN  n >= 1 /\ LStrip(Drop(r, n + 1), Whitespace) \in MEMORY_UNITS

\* seconds per unit: _minute, _hour, _day
UnitSeconds(u) ==
    CASE u = <<"s">> -> 1
      [] u = <<"m","i","n">> -> 60
      [] u = <<"h">> -> 60 * 60
      [] u = <<"d">> -> 24 * 60 * 60

TIMEDELTA_UNITS == {<<"m","s">>, <<"s">>, <<"m","i","n">>, <<"h">>, <<"d">>}

\* _timedelta_re: ^\s*(\d+)\s*(ms|s|min|h|d)\s*$
TimedeltaMatch(raw) ==
    LET r == Strip(raw)
        n == SpanLen(r, DigitChars)
    IN  n >= 1 /\ LStrip(Drop(r, n + 1), Whitespace) \in TIMEDELTA_UNITS

\* timedelta(**{TIMEDELTA_ARGNAME[unit]: number})
Timedelta(number, unit) ==
    IF unit = <<"m","s">> THEN DurationV(number \div 1000, number % 1000)
    ELSE DurationV(number * UnitSeconds(unit), 0)

TimedeltaOf(raw) ==
    LET r == Strip(raw)
        n == SpanLen(r, DigitChars)
    IN  Timedelta(StrToInt(Take(r, n)), LStrip(Drop(r, n + 1), Whitespace))

\* int(raw) succeeds: optional surrounding whitespace, optional sign, digits
IsIntText(raw) ==
    LET r == Strip(raw)
        d == IF r # <<>> /\ Head(r) \in {"+", "-"} THEN Tail(r) ELSE r
    IN  d # <<>> /\ AllIn(d, DigitChars)

IntOf(raw) ==
    LET r == Strip(raw)
    IN  IF Head(r) = "-" THEN 0 - StrToInt(Tail(r))
        ELSE IF Head(r) = "+" THEN StrToInt(Tail(r))
        ELSE StrToInt(r)

\* float(raw) succeeds where int(raw) failed: the decimal literals
\* digits "." digits (exponents, inf and nan are not among the texts drawn)
IsFloatText(raw) ==
    LET r == Strip(raw)
        d == IF r # <<>> /\ Head(r) \in {"+", "-"} THEN Tail(r) ELSE r
        n == SpanLen(d, DigitChars)
        f == Drop(d, n + 1)
    IN  /\ f # <<>> /\ Head(f) = "."
        /\ AllIn(Tail(f), DigitChars)
        /\ n + Len(Tail(f)) >= 1

\* int(raw, base=8) succeeds
IsOctalText(raw) ==
    LET r == Strip(raw)
        d == IF r # <<>> /\ Head(r) \in {"+", "-"} THEN Tail(r) ELSE r
    IN  d # <<>> /\ AllIn(d, OctalChars)

Quote == "'"

\* raw[1:-1].replace("''", "'").replace("\\'", "'")
Unquote(raw) ==
    Replace(Replace(SubSeq(raw, 2, Len(raw) - 1), <<Quote, Quote>>, <<Quote>>),
            <<"\\", Quote>>, <<Quote>>)

\* parse_value after the quotes are taken off
ParseUnquoted(raw, quoted) ==
    IF StartsWith(raw, <<"0">>) /\ raw # <<"0">> /\ IsOctalText(raw) THEN StrV(raw)
    ELSE IF MemoryMatch(raw) THEN StrV(Strip(raw))
    ELSE IF TimedeltaMatch(raw) THEN TimedeltaOf(raw)
    ELSE IF raw \in {<<"t","r","u","e">>, <<"y","e","s">>, <<"o","n">>} THEN BoolV(TRUE)
    ELSE IF raw \in {<<"f","a","l","s","e">>, <<"n","o">>, <<"o","f","f">>} THEN BoolV(FALSE)
    ELSE IF ~quoted /\ IsIntText(raw) THEN IntV(IntOf(raw))
    ELSE IF ~quoted /\ IsFloatText(raw) THEN FloatV(Strip(raw))
    ELSE StrV(raw)

parse_value(raw) ==
    IF StartsWith(raw, <<Quote>>)
    THEN IF ~EndsWith(raw, <<Quote>>) THEN ValueErrorV
         ELSE ParseUnquoted(Unquote(raw), TRUE)
    ELSE ParseUnquoted(raw, FALSE)

\* str(n) for any int
PyIntStr(n) == IF n < 0 THEN <<"-">> \o IntToStr(0 - n) ELSE IntToStr(n)

\* the isinstance(value, str) branch of serialize_value
SerializeStr(s) ==
    IF StartsWith(s, <<Quote>>) /\ EndsWith(s, <<Quote>>) THEN s
    ELSE <<Quote>>
         \o (IF ~Contains(s, <<Quote, Quote>>) /\ ~Contains(s, <<"\\", Quote>>)
             THEN Replace(s, <<Quote>>, <<Quote, Quote>>)
             ELSE s)
         \o <<Quote>>

\* the isinstance(value, timedelta) branch of serialize_value
SerializeDuration(seconds, ms) ==
    IF ms # 0 THEN <<Quote>> \o PyIntStr(seconds * 1000 + ms) \o <<" ","m","s">> \o <<Quote>>
    ELSE IF seconds % UnitSeconds(<<"d">>) = 0
         THEN <<Quote>> \o PyIntStr(seconds \div UnitSeconds(<<"d">>)) \o <<"d">> \o <<Quote>>
    ELSE IF seconds % UnitSeconds(<<"h">>) = 0
         THEN <<Quote>> \o PyIntStr(seconds \div UnitSeconds(<<"h">>)) \o <<"h">> \o <<Quote>>
    ELSE IF seconds % UnitSeconds(<<"m","i","n">>) = 0
         THEN <<Quote>> \o PyIntStr(seconds \div UnitSeconds(<<"m","i","n">>))
              \o <<" ","m","i","n">> \o <<Quote>>
    ELSE <<Quote>> \o PyIntStr(seconds) \o <<"s">> \o <<Quote>>

serialize_value(v) ==
    CASE v.t = "bool" -> IF v.i = 1 THEN <<"o","n">> ELSE <<"o","f","f">>
      [] v.t = "str" -> SerializeStr(v.s)
      [] v.t = "timedelta" -> SerializeDuration(v.i, v.ms)
      [] v.t = "int" -> PyIntStr(v.i)
      [] v.t = "float" -> v.s

(***************************************************************************)
(* Entry                                                                   *)
(***************************************************************************)

\* comment = None
None == <<"<None>">>

\* the line str(entry) writes
EntryStr(name, value, commented, comment) ==
    (IF commented THEN <<"#">> ELSE <<>>)
    \o name \o <<" ","="," ">> \o serialize_value(value)
    \o (IF comment # None /\ comment # <<>> THEN <<" "," ","#"," ">> \o comment ELSE <<>>)

\* Entry(name, value, commented=, comment=, raw_line=) with raw_line given
MkEntry(name, value, commented, comment, raw_line) ==
    [name |-> name, value |-> value, commented |-> commented,
     comment |-> comment, raw_line |-> raw_line]

\* Entry.__post_init__ when raw_line is unspecified: a str value is parsed,
\* raw_line is the serialized entry
NewEntry(name, value, commented, comment) ==
    LET v == IF value.t = "str" THEN parse_value(value.s) ELSE value
    IN  MkEntry(name, v, commented, comment,
                EntryStr(name, v, commented, comment) \o <<"\n">>)

\* Entry.__eq__ (dataclass): name, _value, commented, comment; raw_line is
\* compare=False
EntryEq(e, f) ==
    /\ e.name = f.name
    /\ PyEq(e.value, f.value)
    /\ e.commented = f.commented
    /\ e.comment = f.comment

\* Entry.value setter
SetValue(e, value) ==
    [e EXCEPT !.value = IF value.t = "str" THEN parse_value(value.s) ELSE value]

(***************************************************************************)
(* entries: the insertion-ordered mapping name -> Entry, as the sequence   *)
(* of its values in insertion order (names are distinct).                  *)
(***************************************************************************)

Names(ents) == {ents[i].name : i \in 1..Len(ents)}

\* name in entries
Has(ents, name) == name \in Names(ents)

IndexOf(ents, name) == CHOOSE i \in 1..Len(ents) : ents[i].name = name

\* entries[name]
Get(ents, name) == ents[IndexOf(ents, name)]

\* entries[e.name] = e: an existing key keeps its place, a new one goes last
Put(ents, e) ==
    IF Has(ents, e.name) THEN [ents EXCEPT ![IndexOf(ents, e.name)] = e]
    ELSE Append(ents, e)

\* del entries[name]
Del(ents, name) ==
    LET i == IndexOf(ents, name)
    IN  SubSeq(ents, 1, i - 1) \o SubSeq(ents, i + 1, Len(ents))

\* entries.update(other)
RECURSIVE Update(_, _)
Update(ents, other) ==
    IF other = <<>> THEN ents ELSE Update(Put(ents, Head(other)), Tail(other))

(***************************************************************************)
(* Configuration.parse: one line                                           *)
(***************************************************************************)

kw_include == <<"i","n","c","l","u","d","e">>

kw_include_dir == kw_include \o <<"_","d","i","r">>

kw_include_if_exists == kw_include \o <<"_","i","f","_","e","x","i","s","t","s">>

\* IncludeType.__members__
IncludeType == {kw_include_dir, kw_include_if_exists, kw_include}

NoMatch == [ok |-> FALSE, name |-> <<>>, value |-> <<>>, comment |-> None]

\* the groups of _parameter_re once the name and the separator are matched:
\* value is the shortest text after which only whitespace and an optional
\* "#..." comment follow
MatchRest(name, R) ==
    LET h == FindChar(R, "#")
    IN  [ok |-> TRUE, name |-> name,
         value |-> IF h = 0 THEN RStrip(R, Whitespace)
                   ELSE RStrip(Take(R, h - 1), Whitespace),
         comment |-> IF h = 0 THEN None ELSE Drop(R, h)]

\* _parameter_re.match(line):
\*   ^(?P<name>[a-z_.]+)(?: +(?!=)| *= *)(?P<value>.*?)[\s\t]*(?P<comment>#.*)?$
\* The first alternative takes the most spaces after which no "=" follows
\* (all of them, or all but one when "=" follows the spaces); the second
\* takes the spaces around "=".
ParameterMatch(line) ==
    LET n     == SpanLen(line, NameChars)
        rest  == Drop(line, n + 1)
        sp    == SpanLen(rest, {" "})
        after == Drop(rest, sp + 1)
        eq    == after # <<>> /\ Head(after) = "="
    IN  IF n = 0 THEN NoMatch
        ELSE IF sp >= 1 /\ ~eq THEN MatchRest(Take(line, n), after)
        ELSE IF sp >= 2 /\ eq THEN MatchRest(Take(line, n), Drop(rest, sp))
        ELSE IF eq THEN MatchRest(Take(line, n), LStrip(Tail(after), {" "}))
        ELSE NoMatch

\* What Configuration.parse makes of one raw line, before it looks at the
\* entries: kind is
\*   "skip"     blank line, comment, commented include
\*   "error"    the exception the line raises (err)
\*   "include"  an include directive: its type (name) and target (value)
\*   "entry"    a setting: name, value, commented, comment
LineOutcome(kind, e, name, value, commented, comment) ==
    [kind |-> kind, err |-> e, name |-> name, value |-> value,
     commented |-> commented, comment |-> comment]

\* `continue`, or an exception
NoSetting(kind, e, hash) == LineOutcome(kind, e, <<>>, StrV(<<>>), hash, None)

\* comment.lstrip("#").lstrip()
CommentOf(comment) ==
    IF comment = None THEN None ELSE LStrip(LStrip(comment, {"#"}), Whitespace)

\* the line matched _parameter_re (m) and value is parse_value of its value
MatchedLine(hash, m, value) ==
    IF value = ValueErrorV THEN NoSetting("error", "ValueError", hash)
    ELSE IF m.name \in IncludeType
         THEN IF hash THEN NoSetting("skip", "", hash)
              ELSE IF value.t # "str" THEN NoSetting("error", "AssertionError", hash)
              ELSE LineOutcome("include", "", m.name, value, hash, CommentOf(m.comment))
    ELSE LineOutcome("entry", "", m.name, value, hash, CommentOf(m.comment))

\* line is the stripped line, hash whether it starts with "#", m the match
\* of _parameter_re on it (on what follows the "#"s when hash)
StrippedLine(line, hash, m) ==
    IF line = <<>> THEN NoSetting("skip", "", hash)
    ELSE IF hash /\ ~Contains(line, <<"=">>) THEN NoSetting("skip", "", hash)
    ELSE IF hash /\ ~m.ok THEN NoSetting("skip", "", hash)
    ELSE IF ~m.ok THEN NoSetting("error", "ValueError", hash)
    ELSE MatchedLine(hash, m, parse_value(m.value))

HashLine(line, hash) ==
    StrippedLine(line, hash,
                 ParameterMatch(IF hash THEN LStrip(LStrip(line, {"#"}), Whitespace)
                                ELSE line))

ParseLine(raw_line) == HashLine(Strip(raw_line), StartsWith(Strip(raw_line), <<"#">>))

\* Register, were a commented definition to replace an active entry too
Register_always(ents, p, raw_line) ==
    Put(ents, MkEntry(p.name, p.value, p.commented, p.comment, raw_line))

\* The registration of a parsed setting: a commented definition is dropped
\* when the existing entry of that name is active; otherwise the new Entry
\* replaces it.
Register(ents, p, raw_line) ==
    IF p.commented /\ Has(ents, p.name) /\ ~Get(ents, p.name).commented THEN ents
    ELSE Put(ents, MkEntry(p.name, p.value, p.commented, p.comment, raw_line))

(***************************************************************************)
(* pathlib and the file system.  A path is [abs, parts]; the file system   *)
(* is the set of directories and the contents of the files, both keyed by  *)
(* the normalized absolute sequence of components (no symbolic links).     *)
(***************************************************************************)

VARIABLES
    dirs,       \* the directories: a set of component sequences, <<>> the root
    files,      \* file |-> its lines
    pc,         \* "start" before parse(), "idle" with a Document, "edit" inside
                \* an edit transaction, "failed" when parse() raised
    conf,       \* the Document: [lines, entries, path]
    err,        \* the exception the last operation raised, "" if none
    proxy,      \* the EntriesProxy of the open edit transaction
    snapshot,   \* the Document as it was when the open transaction began
    warnings,   \* number of warnings the last operation emitted
    saved,      \* what the last save() wrote
    last,       \* the last operation and what it was applied to
    nops,       \* number of operations applied to the Document so far
    codec       \* a text on its way through parse_value and serialize_value

vars == <<dirs, files, pc, conf, err, proxy, snapshot, warnings, saved, last, nops,
          codec>>

\* the components of a path text, split at "/"; "" and "." are dropped
RECURSIVE SplitParts(_, _)
SplitParts(text, cur) ==
    LET keep == IF cur = <<>> \/ cur = <<".">> THEN <<>> ELSE <<cur>>
    IN  IF text = <<>> THEN keep
        ELSE IF Head(text) = "/" THEN keep \o SplitParts(Tail(text), <<>>)
        ELSE SplitParts(Tail(text), Append(cur, Head(text)))

\* pathlib.Path(text)
PathOf(text) == [abs |-> StartsWith(text, <<"/">>), parts |-> SplitParts(text, <<>>)]

\* the process's working directory
Cwd == <<>>

\* Path.absolute(): no normalization
Absolute(p) == IF p.abs THEN p ELSE [abs |-> TRUE, parts |-> Cwd \o p.parts]

\* Path.parent: lexical
Parent(p) ==
    IF p.parts = <<>> THEN p ELSE [p EXCEPT !.parts = Take(p.parts, Len(p.parts) - 1)]

\* relative_to / path
Join(p, q) == IF q.abs THEN q ELSE [p EXCEPT !.parts = p.parts \o q.parts]

Missing == <<<<"<missing>">>>>

\* What the kernel resolves an absolute path to: each ".." steps up from a
\* directory that must exist, each name steps down from one.
RECURSIVE Walk(_, _, _, _)
Walk(ds, fl, cur, parts) ==
    IF parts = <<>> THEN (IF cur \in ds \/ cur \in DOMAIN fl THEN cur ELSE Missing)
    ELSE IF cur \notin ds THEN Missing
    ELSE IF Head(parts) = <<".",".">>
         THEN Walk(ds, fl, IF cur = <<>> THEN cur ELSE Take(cur, Len(cur) - 1), Tail(parts))
    ELSE Walk(ds, fl, Append(cur, Head(parts)), Tail(parts))

Resolve(ds, fl, p) == Walk(ds, fl, <<>>, Absolute(p).parts)

\* Path.exists()
Exists(ds, fl, p) == Resolve(ds, fl, p) # Missing

\* Path.is_dir()
IsDir(ds, fl, p) == Resolve(ds, fl, p) \in ds

\* Path.is_file()
IsFile(ds, fl, p) == Resolve(ds, fl, p) \in DOMAIN fl

\* code point order of the characters used in file names
CharOrder ==
    <<".","0","1","2","3","4","5","6","7","8","9","_",
      "a","b","c","d","e","f","g","h","i","j","k","l","m",
      "n","o","p","q","r","s","t","u","v","w","x","y","z">>

Ord(c) == CHOOSE i \in 1..Len(CharOrder) : CharOrder[i] = c

\* a < b for two str
RECURSIVE StrLess(_, _)
StrLess(a, b) ==
    IF b = <<>> THEN FALSE
    ELSE IF a = <<>> THEN TRUE
    ELSE IF Head(a) = Head(b) THEN StrLess(Tail(a), Tail(b))
    ELSE Ord(Head(a)) < Ord(Head(b))

\* sorted(names)
RECURSIVE Sorted(_)
Sorted(S) ==
    IF S = {} THEN <<>>
    ELSE LET m == CHOOSE x \in S : \A y \in S \ {x} : StrLess(x, y)
         IN  <<m>> \o Sorted(S \ {m})

DotConf == <<".","c","o","n","f">>

\* sorted(path.glob("*.conf")) without the names that start with ".": the
\* paths keep the directory as it was written
GlobConf(ds, fl, p) ==
    LET d     == Resolve(ds, fl, p)
        names == {q[Len(q)] : q \in {r \in ds \cup DOMAIN fl :
                                       Len(r) = Len(d) + 1 /\ Take(r, Len(d)) = d}}
        confs == {n \in names : EndsWith(n, DotConf) /\ ~StartsWith(n, <<".">>)}
        order == Sorted(confs)
    IN  [i \in 1..Len(order) |-> [p EXCEPT !.parts = Append(p.parts, order[i])]]

(***************************************************************************)
(* Configuration, Configuration.parse and the include resolver             *)
(***************************************************************************)

\* path = None
NoPath == [abs |-> FALSE, parts |-> <<None>>]

\* Configuration(path)
Configuration(path) == [lines |-> <<>>, entries |-> <<>>, path |-> path]

\* the depth of nested parse_include frames at which the interpreter raises
\* RecursionError
RecursionLimit == 12

\* the result of a parse step: the Document, the visited set, the exception
Result(c, proc, e) == [conf |-> c, proc |-> proc, err |-> e]

\* Merge, were the merge to take the lines of the included file too
Merge_with_lines(c, subconf) ==
    [c EXCEPT !.entries = Update(c.entries, subconf.entries),
              !.lines = c.lines \o subconf.lines]

\* conf.entries.update(subconf.entries); the lines of conf are not touched
Merge(c, subconf) == [c EXCEPT !.entries = Update(c.entries, subconf.entries)]

\* the top of parse_include: a relative path is taken from the directory of
\* the including Document
IncludeTarget(c, path) ==
    IF path.abs THEN path
    ELSE LET relative_to == Absolute(c.path)
         IN  Join(IF IsFile(dirs, files, relative_to) THEN Parent(relative_to)
                  ELSE relative_to,
                  path)

RECURSIVE ParseInto(_, _, _, _, _)
RECURSIVE ParseStep(_, _, _, _, _, _, _)
RECURSIVE AfterInclude(_, _, _, _, _)
RECURSIVE parse_include(_, _, _, _, _)
RECURSIVE IncludeEach(_, _, _, _)

\* The loop of Configuration.parse over content, with what its consumer
\* (_consume for the top Document, parse_include for a sub-Document) does
\* at each include directive before the loop goes on.  proc is the
\* _processed set of the enclosing parse_include; every directive of the
\* top Document (istop) starts a new set.
ParseInto(c, content, proc, depth, istop) ==
    IF content = <<>> THEN Result(c, proc, "")
    ELSE ParseStep([c EXCEPT !.lines = Append(c.lines, Head(content))],
                   Head(content), ParseLine(Head(content)), Tail(content),
                   proc, depth, istop)

\* one iteration: raw_line is appended to the lines of c1, p is what the
\* line is
ParseStep(c1, raw_line, p, rest, proc, depth, istop) ==
    IF p.kind = "skip" THEN ParseInto(c1, rest, proc, depth, istop)
    ELSE IF p.kind = "error" THEN Result(c1, proc, p.err)
    ELSE IF p.kind = "entry"
         THEN ParseInto([c1 EXCEPT !.entries = Register(c1.entries, p, raw_line)],
                        rest, proc, depth, istop)
    ELSE AfterInclude(parse_include(c1, PathOf(p.value.s), p.name,
                                    IF istop THEN {} ELSE proc, depth + 1),
                      rest, proc, depth, istop)

\* the consumer resumes the loop when parse_include (r) did not raise
AfterInclude(r, rest, proc, depth, istop) ==
    IF r.err # "" THEN Result(r.conf, proc, r.err)
    ELSE ParseInto(r.conf, rest, IF istop THEN proc ELSE r.proc, depth, istop)

\* parse_include(conf, path, include_type, _processed=proc), at nesting
\* depth `depth` of parse_include frames
parse_include(c, path0, include_type, proc, depth) ==
    IF depth > RecursionLimit THEN Result(c, proc, "RecursionError")
    ELSE IF ~path0.abs /\ c.path = NoPath THEN Result(c, proc, "ParseError")
    ELSE LET path == IncludeTarget(c, path0)
         IN  IF include_type = kw_include_dir
             THEN IF ~IsDir(dirs, files, path) THEN Result(c, proc, "FileNotFoundError")
                  ELSE IncludeEach(c, GlobConf(dirs, files, path), proc, depth + 1)
             ELSE IF include_type = kw_include_if_exists
             THEN IF Exists(dirs, files, path)
                  THEN parse_include(c, path, kw_include, proc, depth + 1)
                  ELSE Result(c, proc, "")
             ELSE IF ~Exists(dirs, files, path) THEN Result(c, proc, "FileNotFoundError")
             ELSE IF path \in proc THEN Result(c, proc, "RuntimeError")
             ELSE IF IsDir(dirs, files, path)
                  THEN Result(c, proc \cup {path}, "IsADirectoryError")
             ELSE LET r == ParseInto(Configuration(path),
                                     files[Resolve(dirs, files, path)],
                                     proc \cup {path}, depth, FALSE)
                  IN  IF r.err # "" THEN Result(c, r.proc, r.err)
                      ELSE Result(Merge(c, r.conf), r.proc, "")

\* the loop of the include_dir branch over the sorted *.conf paths
IncludeEach(c, paths, proc, depth) ==
    IF paths = <<>> THEN Result(c, proc, "")
    ELSE LET r == parse_include(c, Head(paths), kw_include, proc, depth)
         IN  IF r.err # "" THEN r
             ELSE IncludeEach(r.conf, Tail(paths), r.proc, depth)

\* parse(fo) with fo a path: open the file, Configuration(f.name), _consume
ParseFile(path) ==
    IF ~Exists(dirs, files, path) THEN Result(Configuration(path), {}, "FileNotFoundError")
    ELSE IF IsDir(dirs, files, path) THEN Result(Configuration(path), {}, "IsADirectoryError")
    ELSE ParseInto(Configuration(path), files[Resolve(dirs, files, path)], {}, 0, TRUE)

(***************************************************************************)
(* The texts the model draws from: lines of configuration files, names,    *)
(* values and comments.                                                    *)
(***************************************************************************)

\* 'x = 1\n'
L_x1 == <<"x"," ","="," ","1","\n">>

\* '#x = 2\n'
L_cx2 == <<"#","x"," ","="," ","2","\n">>

\* 'x = 3\n'
L_x3 == <<"x"," ","="," ","3","\n">>

\* '#x = 4\n'
L_cx4 == <<"#","x"," ","="," ","4","\n">>

\* 'x = 5\n'
L_x5 == <<"x"," ","="," ","5","\n">>

\* '#x = 6\n'
L_cx6 == <<"#","x"," ","="," ","6","\n">>

\* 'x = 7\n'
L_x7 == <<"x"," ","="," ","7","\n">>

\* '#x = 8\n'
L_cx8 == <<"#","x"," ","="," ","8","\n">>

\* '\n'
L_blank == <<"\n">>

\* '# c\n'
L_comment == <<"#"," ","c","\n">>

\* 'y = 1\n'
L_y1 == <<"y"," ","="," ","1","\n">>

\* '#y = 2\n'
L_cy2 == <<"#","y"," ","="," ","2","\n">>

\* "include 'a.conf'\n"
L_inc_a == <<"i","n","c","l","u","d","e"," ","'","a",".","c","o","n","f","'","\n">>

\* "include_dir 'd'\n"
L_inc_dir_d == <<"i","n","c","l","u","d","e","_","d","i","r"," ","'","d","'","\n">>

\* "include '/m.conf'\n"
L_inc_m == <<"i","n","c","l","u","d","e"," ","'","/","m",".","c","o","n","f","'","\n">>

\* "include 'd/b.conf'\n"
L_inc_d_b == <<"i","n","c","l","u","d","e"," ","'","d","/","b",".","c","o","n","f","'","\n">>

\* "include '../a.conf'\n"
L_inc_up_a == <<"i","n","c","l","u","d","e"," ","'",".",".","/","a",".","c","o","n","f","'","\n">>

\* "include_if_exists '/a.conf'\n"
L_incif_a == <<"i","n","c","l","u","d","e","_","i","f","_","e","x","i","s","t","s"," ","'","/","a",".","c","o","n","f","'","\n">>

\* "include '/d/b.conf'\n"
L_inc_abs_b == <<"i","n","c","l","u","d","e"," ","'","/","d","/","b",".","c","o","n","f","'","\n">>

n_x == <<"x">>

n_y == <<"y">>

n_z == <<"z">>

f_m == <<<<"m",".","c","o","n","f">>>>

f_a == <<<<"a",".","c","o","n","f">>>>

f_b == <<<<"d">>, <<"b",".","c","o","n","f">>>>

f_c == <<<<"d">>, <<"c",".","c","o","n","f">>>>

\* all sequences over S of length at most n
RECURSIVE SeqsUpTo(_, _)
SeqsUpTo(S, n) ==
    IF n = 0 THEN {<<>>}
    ELSE LET shorter == SeqsUpTo(S, n - 1)
         IN  shorter \cup {Append(q, a) : q \in shorter, a \in S}

(***************************************************************************)
(* Editing a Document                                                      *)
(***************************************************************************)

\* what an operation on the Document leaves: the Document, the exception
\* raised ("" if none), the number of warnings emitted
Outcome(c, e, w) == [conf |-> c, err |-> e, warnings |-> w]

\* list.index(x): the first position of x, 0 for ValueError
RECURSIVE ListIndex(_, _)
ListIndex(lines, x) ==
    IF lines = <<>> THEN 0
    ELSE IF Head(lines) = x THEN 1
    ELSE LET r == ListIndex(Tail(lines), x) IN IF r = 0 THEN 0 ELSE r + 1

\* list.remove(x) when x is in the list: the first occurrence goes
ListRemove(lines, x) ==
    LET i == ListIndex(lines, x)
    IN  SubSeq(lines, 1, i - 1) \o SubSeq(lines, i + 1, Len(lines))

\* str(entry) + "\n"
Serialized(e) == EntryStr(e.name, e.value, e.commented, e.comment) \o <<"\n">>

\* Configuration._add_entry
add_entry(c, entry) ==
    LET e == [entry EXCEPT !.raw_line = Serialized(entry)]
    IN  Outcome([c EXCEPT !.entries = Put(c.entries, e),
                          !.lines = Append(c.lines, e.raw_line)], "", 0)

\* update_entry, were it to keep the commented flag of the new entry
update_entry_keeps_commented(c, entry) ==
    LET old_entry == Get(c.entries, entry.name)
        e         == [entry EXCEPT !.raw_line = Serialized(entry)]
        lineno    == ListIndex(c.lines, old_entry.raw_line)
        c1        == [c EXCEPT !.entries = Put(c.entries, e)]
    IN  IF lineno = 0
        THEN IF ~e.commented
             THEN Outcome([c1 EXCEPT !.lines = Append(c.lines, e.raw_line)], "", 1)
             ELSE Outcome(c1, "", 0)
        ELSE Outcome([c1 EXCEPT !.lines = [c.lines EXCEPT ![lineno] = e.raw_line]], "", 0)

\* update_entry, were the ValueError of list.index to propagate
update_entry_strict(c, entry) ==
    LET old_entry == Get(c.entries, entry.name)
        e1        == IF old_entry.commented THEN [entry EXCEPT !.commented = FALSE]
                     ELSE entry
        e         == [e1 EXCEPT !.raw_line = Serialized(e1)]
        lineno    == ListIndex(c.lines, old_entry.raw_line)
        c1        == [c EXCEPT !.entries = Put(c.entries, e)]
    IN  IF lineno = 0 THEN Outcome(c1, "ValueError", 0)
        ELSE Outcome([c1 EXCEPT !.lines = [c.lines EXCEPT ![lineno] = e.raw_line]], "", 0)

\* Configuration._update_entry
update_entry(c, entry) ==
    LET old_entry == Get(c.entries, entry.name)
        e1        == IF old_entry.commented THEN [entry EXCEPT !.commented = FALSE]
                     ELSE entry
        e         == [e1 EXCEPT !.raw_line = Serialized(e1)]
        lineno    == ListIndex(c.lines, old_entry.raw_line)
        c1        == [c EXCEPT !.entries = Put(c.entries, e)]
    IN  IF lineno = 0
        THEN IF ~e.commented
             THEN Outcome([c1 EXCEPT !.lines = Append(c.lines, e.raw_line)], "", 1)
             ELSE Outcome(c1, "", 0)
        ELSE Outcome([c1 EXCEPT !.lines = [c.lines EXCEPT ![lineno] = e.raw_line]], "", 0)

\* Configuration.__setitem__
setitem(c, key, value) ==
    IF key \in IncludeType THEN Outcome(c, "ValueError", 0)
    ELSE IF value.t = "str" /\ parse_value(value.s) = ValueErrorV
         THEN Outcome(c, "ValueError", 0)
    ELSE IF Has(c.entries, key) THEN update_entry(c, SetValue(Get(c.entries, key), value))
    ELSE add_entry(c, NewEntry(key, value, FALSE, None))

\* Configuration.__iadd__
iadd(c, other) ==
    Outcome([c EXCEPT !.lines = <<>>, !.entries = Update(c.entries, other.entries)], "", 0)

\* edit(): "Add or update entries", the loop over the proxy's items
RECURSIVE AddOrUpdate(_, _)
AddOrUpdate(o, items) ==
    IF items = <<>> THEN o
    ELSE LET entry == Head(items)
             r     == IF ~Has(o.conf.entries, entry.name) THEN add_entry(o.conf, entry)
                      ELSE IF ~EntryEq(Get(o.conf.entries, entry.name), entry)
                           THEN update_entry(o.conf, entry)
                      ELSE Outcome(o.conf, "", 0)
         IN  AddOrUpdate(Outcome(r.conf, "", o.warnings + r.warnings), Tail(items))

\* edit(): "Discard removed entries", the loop over list(self.entries.items());
\* raw_line is never None, so list.remove is always called and raises
\* ValueError when the line is not in lines
RECURSIVE DiscardRemoved(_, _, _)
DiscardRemoved(o, items, px) ==
    IF items = <<>> THEN o
    ELSE LET entry == Head(items)
         IN  IF Has(px, entry.name) THEN DiscardRemoved(o, Tail(items), px)
             ELSE LET c1 == [o.conf EXCEPT !.entries = Del(o.conf.entries, entry.name)]
                  IN  IF ListIndex(c1.lines, entry.raw_line) = 0
                      THEN Outcome(c1, "ValueError", o.warnings)
                      ELSE DiscardRemoved(
                               Outcome([c1 EXCEPT !.lines = ListRemove(c1.lines, entry.raw_line)],
                                       "", o.warnings),
                               Tail(items), px)

\* the else branch of edit(): the body ended without raising
Commit(c, px) ==
    LET o == AddOrUpdate(Outcome(c, "", 0), px)
    IN  DiscardRemoved(o, o.conf.entries, px)

\* edit_exit, were the changes applied in a finally clause
edit_exit_finally(c, px, exc) ==
    LET o == Commit(c, px) IN Outcome(o.conf, IF exc # "" THEN exc ELSE o.err, o.warnings)

\* leaving the with block of edit(): the body raised exc ("" if it did not)
edit_exit(c, px, exc) ==
    IF exc # "" THEN Outcome(c, exc, 0) ELSE Commit(c, px)

\* EntriesProxy({k: copy.copy(v) ...}): the proxy holds copies, in order
edit_enter(c) == c.entries

\* EntriesProxy.add: the new proxy, or the exception
proxy_add(px, name, value, commented, comment) ==
    IF Has(px, name) THEN [px |-> px, err |-> "ValueError"]
    ELSE IF value.t = "str" /\ parse_value(value.s) = ValueErrorV
         THEN [px |-> px, err |-> "ValueError"]
    ELSE [px |-> Append(px, NewEntry(name, value, commented, comment)), err |-> ""]

\* Configuration.as_dict: the active names with their values
as_dict(c) ==
    [n \in {e.name : e \in {c.entries[i] : i \in {j \in 1..Len(c.entries) :
                                                    ~c.entries[j].commented}}}
       |-> Get(c.entries, n).value]

(***************************************************************************)
(* The state machine                                                       *)
(***************************************************************************)

\* longest top-level file
MaxLines == 3

\* longest top-level file of an edited Document
MaxDocLines == 2

\* most operations applied to a parsed Document: item assignments, +=, and
\* statements of transaction bodies
MaxOps == 2

\* the path handed to parse()
TopPath == [abs |-> TRUE, parts |-> f_m]

\* the arguments of an operation: value, commented, comment
Args(value, commented, comment) ==
    [value |-> value, commented |-> commented, comment |-> comment]

NoArgs == Args(StrV(<<>>), FALSE, None)

\* last: the operation applied last, its key and arguments, and the Document
\* and the proxy it was applied to
NoLast ==
    [op |-> "", key |-> <<>>, args |-> NoArgs, pre |-> Configuration(NoPath), px |-> <<>>]

Done(op, key, args) == [op |-> op, key |-> key, args |-> args, pre |-> conf, px |-> proxy]

\* the directories / and /d, and the files /m.conf, /a.conf, /d/b.conf and
\* /d/c.conf with the given lines
FileSystem(m, a, b, c) ==
    /\ dirs = {<<>>, <<<<"d">>>>}
    /\ files = (f_m :> m) @@ (f_a :> a) @@ (f_b :> b) @@ (f_c :> c)

Fresh ==
    /\ pc = "start"
    /\ conf = Configuration(NoPath)
    /\ err = ""
    /\ proxy = <<>>
    /\ snapshot = Configuration(NoPath)
    /\ warnings = 0
    /\ saved = <<>>
    /\ last = NoLast
    /\ nops = 0

\* codec: stage is "none" when no text is under way, then "raw" (a text),
\* "value" (value = parse_value(raw)), "text" (text = serialize_value(value))
\* and "back" (back = parse_value(text))
Codec(stage, raw, v, text, back) ==
    [stage |-> stage, raw |-> raw, value |-> v, text |-> text, back |-> back]

NoCodec == Codec("none", <<>>, StrV(<<>>), <<>>, StrV(<<>>))

\* the lines a file of the include graph is made of
MainPool == {L_x1, L_cx2, L_blank, L_inc_a, L_inc_dir_d}

APool == {L_x3, L_cx4, L_inc_d_b, L_inc_m}

BPool == {L_x5, L_cx6, L_inc_up_a, L_incif_a}

CPool == {L_x7, L_cx8, L_inc_abs_b}

InitInc ==
    /\ \E m \in SeqsUpTo(MainPool, MaxLines), a \in SeqsUpTo(APool, 1),
          b \in SeqsUpTo(BPool, 1), c \in SeqsUpTo(CPool, 1) :
           FileSystem(m, a, b, c)
    /\ Fresh
    /\ codec = NoCodec

\* conf = parse(path)
Parse ==
    /\ pc = "start"
    /\ LET r == ParseFile(TopPath)
       IN  /\ pc' = IF r.err = "" THEN "idle" ELSE "failed"
           /\ conf' = IF r.err = "" THEN r.conf ELSE conf
           /\ err' = r.err
    /\ last' = Done("parse", <<>>, NoArgs)
    /\ UNCHANGED <<codec, dirs, files, proxy, snapshot, warnings, saved, nops>>

\* conf.save(fo)
Save ==
    /\ pc = "idle"
    /\ last.op # "save"
    /\ saved' = conf.lines
    /\ err' = ""
    /\ last' = Done("save", <<>>, NoArgs)
    /\ UNCHANGED <<codec, dirs, files, pc, conf, proxy, snapshot, warnings, nops>>

NextInc == Parse \/ Save

\* one file, no include: every sequence of definitions of x
DupPool == {L_x1, L_x3, L_cx2, L_cx4, L_comment}

InitDup ==
    /\ \E m \in SeqsUpTo(DupPool, MaxLines) : FileSystem(m, <<>>, <<>>, <<>>)
    /\ Fresh
    /\ codec = NoCodec

SpecDup == InitDup /\ [][NextInc]_vars

SpecInc == InitInc /\ [][NextInc]_vars

(***************************************************************************)
(* The value codec: a text goes through parse_value, the value through     *)
(* serialize_value, and the serialized text through parse_value again.     *)
(***************************************************************************)

\* longest text, in pieces
MaxRawLen == 4

\* the pieces the texts are made of: quote, backslash, blank, sign, digits,
\* units of time and memory, a Boolean word, a letter
Pieces ==
    {<<"'">>, <<"\\">>, <<" ">>, <<"-">>, <<"0">>, <<"1">>, <<"2">>,
     <<"s">>, <<"m","s">>, <<"h">>, <<"M","B">>, <<"o","n">>, <<"a">>}

\* the concatenations of at most n pieces
RECURSIVE Texts(_)
Texts(n) ==
    IF n = 0 THEN {<<>>}
    ELSE Texts(n - 1) \cup {t \o q : t \in Texts(n - 1), q \in Pieces}

InitCodec ==
    /\ FileSystem(<<>>, <<>>, <<>>, <<>>)
    /\ Fresh
    /\ \E raw \in Texts(MaxRawLen) : codec = Codec("raw", raw, StrV(<<>>), <<>>, StrV(<<>>))

docvars == <<dirs, files, pc, conf, err, proxy, snapshot, warnings, saved, last, nops>>

\* v = parse_value(raw), when it does not raise
CodecParse ==
    /\ codec.stage = "raw"
    /\ parse_value(codec.raw) # ValueErrorV
    /\ codec' = [codec EXCEPT !.stage = "value", !.value = parse_value(codec.raw)]
    /\ UNCHANGED docvars

\* text = serialize_value(v)
CodecSerialize ==
    /\ codec.stage = "value"
    /\ codec' = [codec EXCEPT !.stage = "text", !.text = serialize_value(codec.value)]
    /\ UNCHANGED docvars

\* back = parse_value(text), ValueErrorV when it raises
CodecReparse ==
    /\ codec.stage = "text"
    /\ codec' = [codec EXCEPT !.stage = "back", !.back = parse_value(codec.text)]
    /\ UNCHANGED docvars

NextCodec == CodecParse \/ CodecSerialize \/ CodecReparse

SpecCodec == InitCodec /\ [][NextCodec]_vars

(***************************************************************************)
(* Editing: the Document is parsed from /m.conf, which may include         *)
(* /a.conf, and is then changed by item assignment, += and edit            *)
(* transactions.                                                           *)
(***************************************************************************)

EditPool == {L_x1, L_cx2, L_comment, L_inc_a}

EditAPool == {L_y1, L_cy2}

\* the names, values and comments the operations are called with
KeyPool == {n_x, n_y, n_z}

ValuePool == {IntV(2), BoolV(TRUE)}

CommentPool == {None, <<"k">>}

\* the other Document of conf += other
OtherPool == {<<L_y1>>}

Init ==
    /\ \E m \in SeqsUpTo(EditPool, MaxDocLines), a \in {<<l>> : l \in EditAPool} :
           FileSystem(m, a, <<>>, <<>>)
    /\ Fresh
    /\ codec = NoCodec

\* the effect of an operation on the Document
Apply(o, op, key, args) ==
    /\ conf' = o.conf
    /\ err' = o.err
    /\ warnings' = o.warnings
    /\ last' = Done(op, key, args)
    /\ nops' = nops + 1

\* conf[key] = value
SetItem(key, value) ==
    /\ pc = "idle"
    /\ nops < MaxOps
    /\ Apply(setitem(conf, key, value), "setitem", key, Args(value, FALSE, None))
    /\ UNCHANGED <<codec, dirs, files, pc, proxy, snapshot, saved>>

\* conf += other, other parsed from lines without include directives
IAdd(content) ==
    /\ pc = "idle"
    /\ nops < MaxOps
    /\ Apply(iadd(conf, ParseInto(Configuration(NoPath), content, {}, 0, TRUE).conf),
             "iadd", <<>>, NoArgs)
    /\ UNCHANGED <<codec, dirs, files, pc, proxy, snapshot, saved>>

\* with conf.edit() as entries:
EditEnter ==
    /\ pc = "idle"
    /\ nops < MaxOps
    /\ pc' = "edit"
    /\ proxy' = edit_enter(conf)
    /\ snapshot' = conf
    /\ err' = ""
    /\ warnings' = 0
    /\ last' = Done("enter", <<>>, NoArgs)
    /\ UNCHANGED <<codec, dirs, files, conf, saved, nops>>

\* a statement of the body that changes the proxy and does not raise
InBody(px, op, key, args) ==
    /\ pc = "edit"
    /\ nops < MaxOps
    /\ proxy' = px
    /\ last' = Done(op, key, args)
    /\ nops' = nops + 1
    /\ UNCHANGED <<codec, dirs, files, pc, conf, err, snapshot, warnings, saved>>

\* entries[key].value = value
ProxySetValue(key, value) ==
    /\ Has(proxy, key)
    /\ InBody(Put(proxy, SetValue(Get(proxy, key), value)), "value", key,
              Args(value, FALSE, None))

\* entries[key].comment = comment
ProxySetComment(key, comment) ==
    /\ Has(proxy, key)
    /\ Get(proxy, key).comment # comment
    /\ InBody(Put(proxy, [Get(proxy, key) EXCEPT !.comment = comment]), "comment", key,
              Args(StrV(<<>>), FALSE, comment))

\* entries[key].commented = commented
ProxySetCommented(key, commented) ==
    /\ Has(proxy, key)
    /\ Get(proxy, key).commented # commented
    /\ InBody(Put(proxy, [Get(proxy, key) EXCEPT !.commented = commented]), "commented", key,
              Args(StrV(<<>>), commented, None))

\* del entries[key]
ProxyDel(key) ==
    /\ Has(proxy, key)
    /\ InBody(Del(proxy, key), "del", key, NoArgs)

\* entries.add(key, value, commented=commented) with a new name
ProxyAdd(key, value, commented) ==
    /\ proxy_add(proxy, key, value, commented, None).err = ""
    /\ InBody(proxy_add(proxy, key, value, commented, None).px, "add", key,
              Args(value, commented, None))

\* the with block is left: by exc, or normally when exc = ""
Leave(exc, op, key, args) ==
    /\ pc = "edit"
    /\ pc' = "idle"
    /\ proxy' = <<>>
    /\ Apply(edit_exit(conf, proxy, exc), op, key, args)
    /\ UNCHANGED <<codec, dirs, files, snapshot, saved>>

\* the body ends normally
EditCommit == Leave("", "commit", <<>>, NoArgs)

\* a statement of the body raises
EditRaise == Leave("Exception", "raise", <<>>, NoArgs)

\* entries.add(key, ...) with a name the proxy holds raises ValueError,
\* which leaves the with block
ProxyAddPresent(key) ==
    /\ pc = "edit"
    /\ proxy_add(proxy, key, IntV(2), FALSE, None).err # ""
    /\ Leave(proxy_add(proxy, key, IntV(2), FALSE, None).err, "addfail", key,
             Args(IntV(2), FALSE, None))

Next ==
    \/ Parse
    \/ \E key \in KeyPool, value \in ValuePool : SetItem(key, value)
    \/ \E content \in OtherPool : IAdd(content)
    \/ EditEnter
    \/ \E key \in KeyPool, value \in ValuePool : ProxySetValue(key, value)
    \/ \E key \in KeyPool, comment \in CommentPool : ProxySetComment(key, comment)
    \/ \E key \in KeyPool, commented \in BOOLEAN : ProxySetCommented(key, commented)
    \/ \E key \in KeyPool : ProxyDel(key)
    \/ \E key \in KeyPool, value \in ValuePool, commented \in BOOLEAN :
           ProxyAdd(key, value, commented)
    \/ \E key \in KeyPool : ProxyAddPresent(key)
    \/ EditCommit
    \/ EditRaise

Spec == Init /\ [][Next]_vars

\* the lines a file object yields for a text, str.splitlines(keepends=True):
\* each line ends with its "\n", the last one may lack it
RECURSIVE SplitLines(_, _)
SplitLines(text, cur) ==
    IF text = <<>> THEN (IF cur = <<>> THEN <<>> ELSE <<cur>>)
    ELSE IF Head(text) = "\n" THEN <<Append(cur, "\n")>> \o SplitLines(Tail(text), <<>>)
    ELSE SplitLines(Tail(text), Append(cur, Head(text)))

\* "".join(lines), what save() writes
RECURSIVE Concat(_)
Concat(lines) == IF lines = <<>> THEN <<>> ELSE Head(lines) \o Concat(Tail(lines))

\* parse_string(text)
ParseString(text) == ParseInto(Configuration(NoPath), SplitLines(text, <<>>), {}, 0, TRUE)

\* Editing a Document parsed from a file without include directives, whose
\* last line may lack the newline.
SyncPool == {L_x1, L_cx2, L_y1, L_comment}

InitSync ==
    /\ \E m \in SeqsUpTo(SyncPool, MaxDocLines), nl \in BOOLEAN :
           /\ nl \/ m # <<>>
           /\ FileSystem(SplitLines(IF nl THEN Concat(m)
                                    ELSE Take(Concat(m), Len(Concat(m)) - 1), <<>>),
                         <<>>, <<>>, <<>>)
    /\ Fresh
    /\ codec = NoCodec

SpecSync == InitSync /\ [][Next]_vars


(***************************************************************************)
(* Properties.                                                             *)
(***************************************************************************)

\* the members of a sequence
Range(s) == {s[i] : i \in 1..Len(s)}

\* the text of the top-level file
TopText == files[f_m]

\* raw_line defines name n as an active, respectively commented, setting
IsActiveDef(raw_line, n) ==
    LET p == ParseLine(raw_line) IN p.kind = "entry" /\ p.name = n /\ ~p.commented

IsCommentedDef(raw_line, n) ==
    LET p == ParseLine(raw_line) IN p.kind = "entry" /\ p.name = n /\ p.commented

IsInclude(raw_line) == ParseLine(raw_line).kind = "include"

\* the Entry a line defines
EntryOfLine(raw_line) ==
    LET p == ParseLine(raw_line)
    IN  MkEntry(p.name, p.value, p.commented, p.comment, raw_line)

\* the largest member of a non-empty set of integers
MaxOf(S) == CHOOSE i \in S : \A j \in S : j <= i

\* C1: saving a parsed Document that was not modified writes the text of the
\* top-level file byte for byte: blank lines, comments and include
\* directives as they were read, and nothing of the included files.
C1_RoundTrip ==
    /\ last.op = "save" => saved = TopText
    /\ pc = "idle" => conf.lines = TopText

\* C1 witness: a saved Document that holds an entry merged from an included
\* file, next to a blank line and the directive itself
C1_Witness ==
    /\ last.op = "save"
    /\ saved = TopText
    /\ \E i \in 1..Len(saved) : IsInclude(saved[i])
    /\ L_blank \in Range(saved)
    /\ \E i \in 1..Len(conf.entries) : conf.entries[i].raw_line \notin Range(saved)

\* C4: within one file, the entry of a name is the last active definition
\* of the name if the file has one, else the last commented definition: a
\* commented definition never replaces an active entry, an active one
\* always replaces the entry.
C4_Shadowing ==
    (last.op = "parse" /\ err = "" /\ \A i \in 1..Len(TopText) : ~IsInclude(TopText[i])) =>
        LET act == {i \in 1..Len(TopText) : IsActiveDef(TopText[i], n_x)}
            com == {i \in 1..Len(TopText) : IsCommentedDef(TopText[i], n_x)}
        IN  IF act # {}
            THEN Has(conf.entries, n_x)
                 /\ Get(conf.entries, n_x) = EntryOfLine(TopText[MaxOf(act)])
            ELSE IF com # {}
            THEN Has(conf.entries, n_x)
                 /\ Get(conf.entries, n_x) = EntryOfLine(TopText[MaxOf(com)])
            ELSE ~Has(conf.entries, n_x)

\* C4 witness: a commented definition follows an active one, which follows
\* another definition, and the entry is the active one
C4_Witness ==
    /\ last.op = "parse"
    /\ err = ""
    /\ \E i, j, k \in 1..Len(TopText) :
          /\ i < j /\ j < k
          /\ IsCommentedDef(TopText[i], n_x)
          /\ IsActiveDef(TopText[j], n_x)
          /\ IsCommentedDef(TopText[k], n_x)
          /\ Get(conf.entries, n_x) = EntryOfLine(TopText[j])

\* the files a file includes directly: the targets of its directives as
\* the file system resolves them
DirectIncludes(f) ==
    UNION {
        LET p      == ParseLine(files[f][i])
            target == Join([abs |-> TRUE, parts |-> Take(f, Len(f) - 1)], PathOf(p.value.s))
            loc    == Resolve(dirs, files, target)
        IN  IF p.kind # "include" THEN {}
            ELSE IF p.name = kw_include_dir
                 THEN IF loc \in dirs
                      THEN {g \in DOMAIN files : Len(g) = Len(loc) + 1
                                                 /\ Take(g, Len(loc)) = loc
                                                 /\ EndsWith(g[Len(g)], DotConf)}
                      ELSE {}
            ELSE IF loc \in DOMAIN files THEN {loc} ELSE {}
        : i \in 1..Len(files[f]) }

\* the files reachable from the files of S, S included
RECURSIVE IncludeClosure(_)
IncludeClosure(S) ==
    LET T == S \cup UNION {DirectIncludes(f) : f \in S}
    IN  IF T = S THEN S ELSE IncludeClosure(T)

\* a file reachable from the top-level file includes itself, directly or
\* through other files
HasCycle ==
    \E f \in IncludeClosure({f_m}) : f \in IncludeClosure(DirectIncludes(f))

\* C5: when a file reachable from the top-level file includes itself,
\* directly or transitively, loading stops with the loop-detected
\* RuntimeError.
C5_LoopDetected ==
    (last.op = "parse" /\ HasCycle) => err = "RuntimeError"

\* the value of the last active definition of n in the text of file f
LastActiveValue(f, n) ==
    ParseLine(files[f][MaxOf({i \in 1..Len(files[f]) : IsActiveDef(files[f][i], n)})]).value

DefinesActive(f, n) == \E i \in 1..Len(files[f]) : IsActiveDef(files[f][i], n)

NoIncludeIn(f) == \A i \in 1..Len(files[f]) : ~IsInclude(files[f][i])

\* the file whose value of n an include directive of the top-level file
\* brings in: the included files that hold an active definition of n, the
\* last of them in name order for include_dir; {} when there is none
WinningFile(n) ==
    LET fs == {f \in DirectIncludes(f_m) : DefinesActive(f, n)}
    IN  IF fs = {} THEN {}
        ELSE {CHOOSE f \in fs : \A g \in fs \ {f} : StrLess(g[Len(g)], f[Len(f)])}

\* C6: a name defined before an include directive and again, as an active
\* setting, in the included files ends with the included value; for
\* include_dir the value of the last file, in sorted name order, that
\* defines it.  Stated for a top-level file with one directive, whose
\* included files include nothing themselves, and with no definition of the
\* name after the directive.
C6_IncludedValueWins ==
    (last.op = "parse" /\ err = "") =>
        \A j \in 1..Len(TopText) :
            ( /\ IsInclude(TopText[j])
              /\ \A k \in 1..Len(TopText) : k # j => ~IsInclude(TopText[k])
              /\ \E i \in 1..(j - 1) : IsActiveDef(TopText[i], n_x)
              /\ \A k \in (j + 1)..Len(TopText) :
                     ~IsActiveDef(TopText[k], n_x) /\ ~IsCommentedDef(TopText[k], n_x)
              /\ \A f \in DirectIncludes(f_m) : NoIncludeIn(f)
              /\ WinningFile(n_x) # {} )
            => \A f \in WinningFile(n_x) :
                   /\ Has(conf.entries, n_x)
                   /\ ~Get(conf.entries, n_x).commented
                   /\ Get(conf.entries, n_x).value = LastActiveValue(f, n_x)

\* C10: a name the including Document holds as an active entry is still
\* active when loading is done: a commented definition, in the file or in
\* an included one, does not deactivate it.
C10_ActiveStaysActive ==
    (last.op = "parse" /\ err = "" /\ DefinesActive(f_m, n_x)) =>
        (Has(conf.entries, n_x) /\ ~Get(conf.entries, n_x).commented)

\* the position of the physical line of `lines` the parser registered as the
\* entry of name n, 0 if none: the scan of Configuration.parse with the
\* position (pos) and the commented flag (active) of the entry so far
RECURSIVE RegisteredFrom(_, _, _, _, _)
RegisteredFrom(lines, n, i, pos, active) ==
    IF i > Len(lines) THEN pos
    ELSE LET p == ParseLine(lines[i])
         IN  IF p.kind = "entry" /\ p.name = n /\ ~(p.commented /\ pos # 0 /\ active)
             THEN RegisteredFrom(lines, n, i + 1, i, ~p.commented)
             ELSE RegisteredFrom(lines, n, i + 1, pos, active)

RegisteredPos(lines, n) == RegisteredFrom(lines, n, 1, 0, FALSE)

\* the proxy the last transaction left differs from the Document it began
\* with in the entry of name k only, which the comparison of the commit
\* sees as changed
SingleChange(k) ==
    /\ Has(last.pre.entries, k)
    /\ Has(last.px, k)
    /\ ~EntryEq(Get(last.pre.entries, k), Get(last.px, k))
    /\ Len(last.px) = Len(last.pre.entries)
    /\ \A i \in 1..Len(last.px) :
           last.px[i].name # k => last.px[i] = last.pre.entries[i]

\* ... and in the value of that entry only
ValueChange(k) ==
    /\ SingleChange(k)
    /\ Get(last.px, k) = [Get(last.pre.entries, k) EXCEPT !.value = Get(last.px, k).value]

\* C2: a committed transaction that changes the value of one setting whose
\* defining line is among the Document's own lines replaces the line at the
\* position the entry was parsed from by the new serialization and leaves
\* the number of lines and every other line as they were.  Stated for a
\* transaction on the Document as parse() returned it.
C2_InPlace ==
    (last.op = "commit" /\ last.pre = ParseFile(TopPath).conf) =>
        \A k \in Names(last.pre.entries) :
            LET pos == RegisteredPos(last.pre.lines, k)
            IN  ( /\ ValueChange(k)
                  /\ pos # 0
                  /\ last.pre.lines[pos] = Get(last.pre.entries, k).raw_line )
                => /\ err = ""
                   /\ Len(conf.lines) = Len(last.pre.lines)
                   /\ PyEq(Get(conf.entries, k).value, Get(last.px, k).value)
                   /\ conf.lines[pos] = Serialized(Get(conf.entries, k))
                   /\ \A i \in 1..Len(conf.lines) :
                          i # pos => conf.lines[i] = last.pre.lines[i]

\* C3: when the body of an edit transaction raises, the lines and the
\* entries of the Document are what they were when the transaction began,
\* and the exception leaves the with block.
C3_AbortKeepsDocument ==
    last.op \in {"raise", "addfail"} =>
        /\ conf = snapshot
        /\ conf = last.pre
        /\ err # ""
        /\ pc = "idle"

\* C3 witness: the body raised after it had changed the proxy
C3_Witness ==
    /\ last.op = "raise"
    /\ last.px # snapshot.entries
    /\ snapshot.entries # <<>>
    /\ conf = snapshot

\* the change of the entry of name k that the last operation applied
Applied(k) ==
    \/ last.op = "setitem" /\ last.key = k /\ err = ""
    \/ /\ last.op = "commit"
       /\ Has(last.px, k)
       /\ ~EntryEq(Get(last.pre.entries, k), Get(last.px, k))

\* C7: an entry that was commented in the Document and is changed, by a
\* committed transaction or by conf[name] = value, is active afterwards and
\* the line written for it does not start with "#".
C7_Uncommented ==
    last.op \in {"commit", "setitem"} =>
        \A k \in Names(last.pre.entries) :
            (Get(last.pre.entries, k).commented /\ Applied(k)) =>
                /\ Has(conf.entries, k)
                /\ ~Get(conf.entries, k).commented
                /\ Head(Get(conf.entries, k).raw_line) # "#"
                /\ Get(conf.entries, k).raw_line = Serialized(Get(conf.entries, k))
                /\ Get(conf.entries, k).raw_line \in Range(conf.lines)

\* C7 witness: a commit applied a changed value to a commented entry whose
\* line is in the Document
C7_Witness ==
    /\ last.op = "commit"
    /\ \E k \in Names(last.pre.entries) :
          /\ Get(last.pre.entries, k).commented
          /\ Get(last.pre.entries, k).raw_line \in Range(last.pre.lines)
          /\ Applied(k)
          /\ Get(last.px, k).commented
          /\ ~Get(conf.entries, k).commented
          /\ Get(conf.entries, k).raw_line \in Range(conf.lines)

\* the entry of name k after the commit took the proxy's entry
Committed(k) ==
    LET e == [Get(last.px, k) EXCEPT
                 !.commented = IF Get(last.pre.entries, k).commented THEN FALSE ELSE @]
    IN  [e EXCEPT !.raw_line = Serialized(e)]

\* C8: a commit that changes an entry whose raw line is not among the
\* Document's lines, the new entry not being commented, does not fail: one
\* warning, the new serialization appended after the unchanged lines, and
\* entries holds the new entry.
C8_MissingLineAppends ==
    last.op = "commit" =>
        \A k \in Names(last.pre.entries) :
            ( /\ SingleChange(k)
              /\ Get(last.pre.entries, k).raw_line \notin Range(last.pre.lines)
              /\ ~Committed(k).commented )
            => /\ err = ""
               /\ warnings = 1
               /\ conf.lines = Append(last.pre.lines, Committed(k).raw_line)
               /\ conf.entries = Put(last.pre.entries, Committed(k))

\* C8 witness: the changed entry came from the included file, whose line
\* the Document does not hold, next to lines of its own
C8_Witness ==
    /\ last.op = "commit"
    /\ warnings = 1
    /\ last.pre.lines # <<>>
    /\ \E k \in Names(last.pre.entries) :
          /\ SingleChange(k)
          /\ Get(last.pre.entries, k).raw_line \in Range(files[f_a])
          /\ Get(last.pre.entries, k).raw_line \notin Range(last.pre.lines)
          /\ conf.lines = Append(last.pre.lines, Get(conf.entries, k).raw_line)

\* C9: a commit whose proxy lost one name removes the name from entries
\* and, when the entry's raw line is among the lines, that one line; when
\* it is not, the lines are left as they were; the commit completes.
C9_RemovalCompletes ==
    last.op = "commit" =>
        \A k \in Names(last.pre.entries) :
            last.px = Del(last.pre.entries, k) =>
                LET raw == Get(last.pre.entries, k).raw_line
                IN  /\ err = ""
                    /\ conf.entries = last.px
                    /\ IF raw \in Range(last.pre.lines)
                       THEN \E i \in 1..Len(last.pre.lines) :
                               /\ last.pre.lines[i] = raw
                               /\ conf.lines = SubSeq(last.pre.lines, 1, i - 1)
                                               \o SubSeq(last.pre.lines, i + 1,
                                                         Len(last.pre.lines))
                       ELSE conf.lines = last.pre.lines

\* the unit serialize_value is to write for a duration: milliseconds when
\* it has a part below the second, else the largest of d, h, min, s that
\* divides it
ExactUnit(v) ==
    IF v.ms # 0 THEN <<"m","s">>
    ELSE CHOOSE u \in {<<"d">>, <<"h">>, <<"m","i","n">>, <<"s">>} :
             /\ v.i % UnitSeconds(u) = 0
             /\ \A w \in {<<"d">>, <<"h">>, <<"m","i","n">>, <<"s">>} :
                    v.i % UnitSeconds(w) = 0 => UnitSeconds(w) <= UnitSeconds(u)

\* C11: every value parse_value returns comes back from
\* parse_value(serialize_value(v)), and a duration is written in the
\* largest unit that divides it, milliseconds when it has a sub-second part.
C11_CodecRoundTrip ==
    codec.stage = "back" =>
        /\ codec.back = codec.value
        /\ codec.value.t = "timedelta" =>
               EndsWith(codec.text, ExactUnit(codec.value) \o <<Quote>>)

\* C12: when no file reachable from the top-level file includes itself,
\* loading does not stop with the loop-detected RuntimeError, even when a
\* file is reached along two include paths.
C12_NoFalseCycle ==
    (last.op = "parse" /\ ~HasCycle) => err # "RuntimeError"

\* parsing the text save() writes gives a Document with the active
\* settings of c
InSync(c) ==
    LET r == ParseString(Concat(c.lines))
    IN  /\ r.err = ""
        /\ DOMAIN as_dict(r.conf) = DOMAIN as_dict(c)
        /\ \A n \in DOMAIN as_dict(c) : PyEq(as_dict(r.conf)[n], as_dict(c)[n])

\* C13: a Document parsed from a text without include directives, and the
\* Document after a committed edit transaction or conf[name] = value on it,
\* has lines that parse to its own active settings.
C13_LinesEntriesInSync ==
    ( /\ pc = "idle"
      /\ err = ""
      /\ \/ last.op = "parse"
         \/ last.op \in {"setitem", "commit"} /\ last.pre = ParseFile(TopPath).conf )
    => InSync(conf)

=============================================================================
